---- MODULE Spec2Model ----
(***************************************************************************)
(* Model of SYNQfm/helpers, package common (src/common/exec.go):           *)
(*   - CheckPid, the PID-file single-instance guard, run by several        *)
(*     operating-system processes against one lock file;                   *)
(*   - ExecObj, the subprocess runner (Open, Exec, Read, Close and the     *)
(*     status accessors) together with the child it drives through three   *)
(*     bounded pipes.                                                      *)
(***************************************************************************)
EXTENDS Integers, Sequences, FiniteSets, TLC

\* ------------------------------------------------------------------------
\* Bounds
\* ------------------------------------------------------------------------
NProcs == 2
MaxCalls == 2
MaxWrites == 3
MaxIn == 1
PipeCap == 1
ReportCap == 3
MaxExecs == 2
ReuseWrites == 1

\* ------------------------------------------------------------------------
\* Text helpers: byte strings are sequences of one-character strings,
\* messages are sequences of words.
\* ------------------------------------------------------------------------
Digits == <<"0", "1", "2", "3", "4", "5", "6", "7", "8", "9">>

IsDigit(c) == \E i \in 1..10 : Digits[i] = c

DigitVal(c) == (CHOOSE i \in 1..10 : Digits[i] = c) - 1

\* mutant: only the last decimal digit is printed
FormatIntLastDigit(n) == <<Digits[(n % 10) + 1]>>

\* fmt.Sprintf("%d", n) for n >= 0
RECURSIVE FormatInt(_)
FormatInt(n) ==
    IF n < 10 THEN <<Digits[n + 1]>>
    ELSE FormatInt(n \div 10) \o <<Digits[(n % 10) + 1]>>

RECURSIVE ParseDigits(_, _)
ParseDigits(s, acc) ==
    IF s = <<>> THEN acc
    ELSE ParseDigits(Tail(s), acc * 10 + DigitVal(Head(s)))

\* strconv.ParseInt(s, 10, 64) with the error dropped: a syntax error
\* (empty text, a non-digit) yields 0
ParseInt(s) ==
    IF s = <<>> \/ (\E i \in 1..Len(s) : ~IsDigit(s[i])) THEN 0
    ELSE ParseDigits(s, 0)

\* strings.Contains on word sequences
Contains(s, sub) ==
    \E i \in 0..(Len(s) - Len(sub)) :
        \A j \in 1..Len(sub) : s[i + j] = sub[j]

\* Go error values: nil, or an error carrying a message
NilErr == [nil |-> TRUE, msg |-> <<>>]

Error(m) == [nil |-> FALSE, msg |-> m]

\* NewError("Pid '%d' already exists, will not run", pid)
NewError(pid) ==
    Error(<<"Pid", "'">> \o FormatInt(pid) \o
          <<"'", "already", "exists,", "will", "not", "run">>)

\* ------------------------------------------------------------------------
\* Processes of the single-instance guard
\* ------------------------------------------------------------------------
\* os.Getpid() of the i-th claimant: 7, 12, 17, ... (one and two digits)
PidOf(i) == 7 + 5 * (i - 1)

Procs == {PidOf(i) : i \in 1..NProcs}

\* the PID of a process that terminated before any claimant started
StalePid == 5

ErrFinished == Error(<<"os:", "process", "already", "finished">>)
ErrNoSuch == Error(<<"no", "such", "process">>)
ErrPerm == Error(<<"operation", "not", "permitted">>)
ErrNotInit == Error(<<"os:", "process", "not", "initialized">>)

VARIABLES
    fileExists,   \* the lock file exists
    fileData,     \* its content
    alive,        \* the claimants that are still running
    pc,           \* position of each claimant inside CheckPid
    calls,        \* CheckPid calls each claimant has begun
    bytes,        \* local: what ReadFile returned
    probeErr,     \* local: what process.Signal(0) returned
    ret,          \* result of the claimant's last finished call
    won,          \* history: claimants that obtained (own PID, nil)
    sawExists,    \* history: Stat found the file, in the current/last call
    probedAlive,  \* history: the probed process was alive when probed
    wrote,        \* history: the current/last call opened the file for writing
    prevRet,      \* history: result of the call before the current/last one
    fileAtCall,   \* history: the file when the current/last call began
    fileAtRet,    \* history: the file when the last call returned
    overlapped    \* history: some call began while another was in progress

pidVars == <<fileExists, fileData, alive, pc, calls, bytes, probeErr, ret,
             won, sawExists, probedAlive, wrote, prevRet, fileAtCall,
             fileAtRet, overlapped>>

pidHist == <<prevRet, fileAtCall, fileAtRet, overlapped>>

\* the state of the runner and of its child
VARIABLES
    xpc,        \* position of the caller inside Exec
    stdin,      \* e.stdin: "nil", "open" or "closed"
    stdout,     \* e.stdout
    stderr,     \* e.stderr
    ReadOut,    \* e.ReadOut
    ReadErr,    \* e.ReadErr
    readErrSet, \* e.ReadErr is not nil
    RunErr,     \* e.RunErr
    Err,        \* e.Err
    accOut,     \* local of ioutil.ReadAll(e.stdout)
    accErr,     \* local of ioutil.ReadAll(e.stderr)
    inLeft,     \* bytes the callback has still to write
    inBuf,      \* bytes in the input pipe
    outBuf,     \* bytes in the output pipe
    errBuf,     \* bytes in the error pipe
    pipeSize,   \* bytes a pipe holds before a write to it blocks
    childPc,    \* "none", "running", "exited", "killed", "reaped"
    childPlan,  \* the writes the child performs, in order
    childPos,   \* writes the child has completed
    childExit,  \* the status the child exits with
    sawEOF,     \* the child has read end-of-file on its input
    inRead,     \* bytes of input the child has read
    closeState, \* Close(): "no", "done", "panicked"
    failedAt,   \* history: the step of Exec that failed, "" if none
    steps,      \* history: the steps the current/last Exec call has finished
    cmdPipes,   \* the Cmd streams a pipe was attached to (c.Stdin, ...)
    started,    \* history: child processes started
    execCalls,  \* history: Exec calls begun
    lastBody,   \* the bytes the last StatusBody call returned
    lastMarshal,\* the bytes the last MarshalError call returned
    lastCode    \* the value the last StatusCode call returned

handles == <<stdin, stdout, stderr>>

runner == <<ReadOut, ReadErr, readErrSet, RunErr, Err, accOut, accErr>>

pipes == <<inLeft, inBuf, outBuf, errBuf>>

child == <<childPc, childPlan, childPos, childExit, sawEOF, inRead>>

outputs == <<lastBody, lastMarshal, lastCode>>

life == <<steps, cmdPipes, started, execCalls>>

execVars == <<xpc, handles, runner, pipes, pipeSize, child, closeState,
              failedAt, outputs, life>>

vars == <<pidVars, execVars>>


NoRet == [pid |-> -1, err |-> NilErr]

NoFile == [exists |-> FALSE, data |-> <<>>]

InitFiles ==
    {NoFile, [exists |-> TRUE, data |-> FormatInt(StalePid)]}
    \cup {[exists |-> TRUE, data |-> FormatInt(p)] : p \in Procs}

InitPid ==
    /\ \E f \in InitFiles : fileExists = f.exists /\ fileData = f.data
    /\ alive = Procs
    /\ pc = [p \in Procs |-> "idle"]
    /\ calls = [p \in Procs |-> 0]
    /\ bytes = [p \in Procs |-> <<>>]
    /\ probeErr = [p \in Procs |-> NilErr]
    /\ ret = [p \in Procs |-> NoRet]
    /\ won = {}
    /\ sawExists = [p \in Procs |-> FALSE]
    /\ probedAlive = [p \in Procs |-> FALSE]
    /\ wrote = [p \in Procs |-> FALSE]
    /\ prevRet = [p \in Procs |-> NoRet]
    /\ fileAtCall = [p \in Procs |-> NoFile]
    /\ fileAtRet = [p \in Procs |-> NoFile]
    /\ overlapped = FALSE

\* pid, _ := strconv.ParseInt(string(bytes), 10, 64)
RecordedPid(p) == ParseInt(bytes[p])

\* what process.Signal(syscall.Signal(0)) can return for a PID
ProbeOutcomes(pid) ==
    IF pid = 0 THEN {ErrNotInit}
    ELSE IF pid \in alive THEN {NilErr, ErrPerm}
    ELSE {ErrFinished, ErrNoSuch}

\* mutant: pidExists starts out false and is never set
PidExistsNever(err) == FALSE

\* mutant: every probe error counts as "not alive"
PidExistsOnlyNil(err) == err.nil

\* lines 158-164: pidExists after the probe
PidExists(err) ==
    IF err.nil THEN TRUE
    ELSE ~(Contains(err.msg, <<"already", "finished">>)
           \/ Contains(err.msg, <<"no", "such", "process">>))

\* the bytes a write at offset 0 leaves in a file that held old
WriteAt0(old, new) ==
    IF Len(new) >= Len(old) THEN new
    ELSE new \o SubSeq(old, Len(new) + 1, Len(old))

\* mutant: the comparison with the own PID never succeeds
IsOwnPidNever(p, pid) == FALSE

\* line 152: currentPid == int(pid)
IsOwnPid(p, pid) == p = pid

\* mutant: the conflict branch returns the recorded PID without an error
ConflictRetNoErr(p, pid) == [pid |-> pid, err |-> NilErr]

\* mutant: the conflict branch returns the success result
ConflictRetOwn(p, pid) == [pid |-> p, err |-> NilErr]

\* line 166: the conflict result
ConflictRet(p, pid) == [pid |-> pid, err |-> NewError(pid)]

\* lines 154, 170: the success result
OwnRet(p) == [pid |-> p, err |-> NilErr]

Return(p, r) ==
    /\ ret' = [ret EXCEPT ![p] = r]
    /\ fileAtRet' = [fileAtRet EXCEPT ![p] = [exists |-> fileExists', data |-> fileData']]
    /\ won' = IF r.err.nil /\ r.pid = p THEN won \cup {p} ELSE won
    /\ pc' = [pc EXCEPT ![p] = "idle"]

\* line 149: os.Stat(pidFile)
Stat(p) ==
    /\ p \in alive
    /\ UNCHANGED execVars
    /\ pc[p] = "idle"
    /\ calls[p] < MaxCalls
    /\ calls' = [calls EXCEPT ![p] = @ + 1]
    /\ sawExists' = [sawExists EXCEPT ![p] = fileExists]
    /\ probedAlive' = [probedAlive EXCEPT ![p] = FALSE]
    /\ wrote' = [wrote EXCEPT ![p] = FALSE]
    /\ prevRet' = [prevRet EXCEPT ![p] = ret[p]]
    /\ fileAtCall' = [fileAtCall EXCEPT ![p] = [exists |-> fileExists, data |-> fileData]]
    /\ overlapped' = (overlapped \/ \E q \in alive \ {p} : pc[q] # "idle")
    /\ bytes' = [bytes EXCEPT ![p] = <<>>]
    /\ probeErr' = [probeErr EXCEPT ![p] = NilErr]
    /\ pc' = [pc EXCEPT ![p] = IF fileExists THEN "read" ELSE "open"]
    /\ UNCHANGED <<fileExists, fileData, alive, ret, won, fileAtRet>>

\* lines 150-155: ReadFile, ParseInt, the comparison with the own PID
ReadFile(p) ==
    /\ p \in alive
    /\ UNCHANGED execVars
    /\ pc[p] = "read"
    /\ bytes' = [bytes EXCEPT ![p] = IF fileExists THEN fileData ELSE <<>>]
    /\ UNCHANGED <<fileExists, fileData>>
    /\ IF IsOwnPid(p, ParseInt(bytes'[p]))
       THEN Return(p, OwnRet(p))
       ELSE /\ pc' = [pc EXCEPT ![p] = "probe"]
            /\ UNCHANGED <<ret, won, fileAtRet>>
    /\ UNCHANGED <<alive, calls, probeErr, sawExists, probedAlive, wrote,
                   prevRet, fileAtCall, overlapped>>

\* lines 156-167: FindProcess, Signal(0), the decision
Probe(p) ==
    /\ p \in alive
    /\ UNCHANGED execVars
    /\ pc[p] = "probe"
    /\ UNCHANGED <<fileExists, fileData>>
    /\ \E err \in ProbeOutcomes(RecordedPid(p)) :
         /\ probeErr' = [probeErr EXCEPT ![p] = err]
         /\ probedAlive' = [probedAlive EXCEPT ![p] = RecordedPid(p) \in alive]
         /\ IF PidExists(err)
            THEN Return(p, ConflictRet(p, RecordedPid(p)))
            ELSE /\ pc' = [pc EXCEPT ![p] = "open"]
                 /\ UNCHANGED <<ret, won, fileAtRet>>
    /\ UNCHANGED <<alive, calls, bytes, sawExists, wrote, prevRet, fileAtCall,
                   overlapped>>

\* mutant: the file is opened without O_TRUNC
OpenNoTrunc(p) ==
    /\ p \in alive
    /\ UNCHANGED execVars
    /\ pc[p] = "open"
    /\ fileExists' = TRUE
    /\ fileData' = fileData
    /\ wrote' = [wrote EXCEPT ![p] = TRUE]
    /\ pc' = [pc EXCEPT ![p] = "write"]
    /\ UNCHANGED <<alive, calls, bytes, probeErr, ret, won, sawExists,
                   probedAlive, prevRet, fileAtCall, fileAtRet, overlapped>>

\* line 169, first half: WriteFile opens with O_CREATE|O_TRUNC
OpenTrunc(p) ==
    /\ p \in alive
    /\ UNCHANGED execVars
    /\ pc[p] = "open"
    /\ fileExists' = TRUE
    /\ fileData' = <<>>
    /\ wrote' = [wrote EXCEPT ![p] = TRUE]
    /\ pc' = [pc EXCEPT ![p] = "write"]
    /\ UNCHANGED <<alive, calls, bytes, probeErr, ret, won, sawExists,
                   probedAlive, prevRet, fileAtCall, fileAtRet, overlapped>>

\* lines 169-170: WriteFile writes the PID text at offset 0; return
WritePid(p) ==
    /\ p \in alive
    /\ UNCHANGED execVars
    /\ pc[p] = "write"
    /\ fileData' = WriteAt0(fileData, FormatInt(p))
    /\ fileExists' = fileExists
    /\ Return(p, OwnRet(p))
    /\ UNCHANGED <<alive, calls, bytes, probeErr, sawExists, probedAlive,
                   wrote, prevRet, fileAtCall, overlapped>>

\* a claimant terminates, at any point
Die(p) ==
    /\ p \in alive
    /\ UNCHANGED execVars
    /\ alive' = alive \ {p}
    /\ UNCHANGED <<fileExists, fileData, pc, calls, bytes, probeErr, ret, won,
                   sawExists, probedAlive, wrote, pidHist>>

CheckPidStep(p) ==
    \/ Stat(p)
    \/ ReadFile(p)
    \/ Probe(p)
    \/ OpenTrunc(p)
    \/ WritePid(p)

NextPid == \E p \in Procs : CheckPidStep(p) \/ Die(p)

\* ------------------------------------------------------------------------
\* ExecObj: the runner, its three pipes and the child process
\* ------------------------------------------------------------------------
ErrPipe == Error(<<"too", "many", "open", "files">>)
ErrStart == Error(<<"exec:", "\"", "nonexistent", "\"", ":", "executable",
                    "file", "not", "found", "in", "$PATH">>)
ErrClose == Error(<<"input/output", "error">>)
ErrRead == Error(<<"bad", "file", "descriptor">>)

\* the error of Cmd.Wait for a child that exited with a non-zero status
ExitErr(n) == Error(<<"exit", "status">> \o FormatInt(n))

ExitCodes == {0, 1, 2}

OutBytes == {"a", "b"}

ErrBytes == {"[", "]", "1"}

\* one write of the child: a byte to its output or to its error stream
ChildWrites ==
    {[stream |-> "out", byte |-> b] : b \in OutBytes}
    \cup {[stream |-> "err", byte |-> b] : b \in ErrBytes}

RECURSIVE SeqsUpTo(_, _)
SeqsUpTo(S, n) ==
    IF n = 0 THEN {<<>>}
    ELSE LET shorter == SeqsUpTo(S, n - 1)
         IN  shorter \cup {Append(q, x) : q \in shorter, x \in S}

RECURSIVE StreamOf(_, _)
StreamOf(plan, stream) ==
    IF plan = <<>> THEN <<>>
    ELSE (IF Head(plan).stream = stream THEN <<Head(plan).byte>> ELSE <<>>)
         \o StreamOf(Tail(plan), stream)

\* NewExec, lines 32-36: the default SynqError
DefaultErr ==
    [Name |-> <<"exec_error">>,
     Url |-> <<"http://docs.synq.fm/api/v1/errors/">>,
     Message |-> <<"An", "error", "occured", "while", "running", "your", "script">>,
     HasDetails |-> FALSE,
     Details |-> <<>>]

\* the runner as NewExec returns it, with a child behaviour and callback input
ExecStart(plan, exit, input) ==
    /\ xpc = "new"
    /\ stdin = "nil" /\ stdout = "nil" /\ stderr = "nil"
    /\ ReadOut = <<>> /\ ReadErr = <<>> /\ readErrSet = FALSE
    /\ RunErr = NilErr
    /\ Err = DefaultErr
    /\ accOut = <<>> /\ accErr = <<>>
    /\ inLeft = input /\ inBuf = 0 /\ outBuf = <<>> /\ errBuf = <<>>
    /\ childPc = "none"
    /\ childPlan = plan
    /\ childPos = 0
    /\ childExit = exit
    /\ sawEOF = FALSE
    /\ inRead = 0
    /\ closeState = "no"
    /\ failedAt = ""
    /\ steps = <<>>
    /\ cmdPipes = {}
    /\ started = 0
    /\ execCalls = 0
    /\ lastBody = <<>>
    /\ lastMarshal = <<>>
    /\ lastCode = 0

InitExec ==
    \E plan \in SeqsUpTo(ChildWrites, MaxWrites), exit \in ExitCodes,
       input \in 0..MaxIn :
        ExecStart(plan, exit, input)

\* the first failure: e.RunErr = err; return
FailFrom(prior, step, err) ==
    /\ RunErr' = err
    /\ failedAt' = step
    /\ steps' = Append(prior, step)
    /\ xpc' = "returned"

Fail(step, err) == FailFrom(steps, step, err)

\* a step of Exec finished without an error
Done(step) == steps' = Append(steps, step) /\ UNCHANGED <<RunErr, failedAt>>

ErrStdinSet == Error(<<"exec:", "Stdin", "already", "set">>)
ErrStarted == Error(<<"exec:", "already", "started">>)

\* mutant: StdinPipe hands out a new pipe whatever the state of the Cmd
StdinPipeRefusedNever == FALSE

\* Cmd.StdinPipe refuses when c.Stdin is set or the process was started
StdinPipeRefused == "stdin" \in cmdPipes \/ childPc # "none"

\* Open, lines 40-58: which pipe acquisition can fail (0: none)
OpenFailures == IF StdinPipeRefused THEN {1} ELSE 0..3

\* the error of the failed acquisition
OpenErr == IF StdinPipeRefused THEN ErrStdinSet ELSE ErrPipe

\* the Cmd streams that got a pipe before the n-th acquisition failed
Acquired(n) ==
    IF n = 0 THEN {"stdin", "stdout", "stderr"}
    ELSE IF n = 1 THEN {}
    ELSE IF n = 2 THEN {"stdin"}
    ELSE {"stdin", "stdout"}

\* Open, lines 40-58: the handles after the n-th pipe acquisition failed
\* (n = 0: none failed)
OpenHandles(n) ==
    [stdin |-> IF n = 1 THEN "nil" ELSE "open",
     stdout |-> IF n = 1 THEN stdout ELSE IF n = 2 THEN "nil" ELSE "open",
     stderr |-> IF n \in {1, 2} THEN stderr ELSE IF n = 3 THEN "nil" ELSE "open"]

\* mutant: the failed Open is recorded but Exec goes on to Start
OpenStepNoReturn(prior) ==
    /\ \E n \in OpenFailures :
         /\ stdin' = OpenHandles(n).stdin
         /\ stdout' = OpenHandles(n).stdout
         /\ stderr' = OpenHandles(n).stderr
         /\ cmdPipes' = cmdPipes \cup Acquired(n)
         /\ xpc' = "start"
         /\ steps' = Append(prior, "open")
         /\ IF n # 0
            THEN RunErr' = OpenErr /\ failedAt' = "open"
            ELSE failedAt' = "" /\ UNCHANGED RunErr
    /\ execCalls' = execCalls + 1
    /\ UNCHANGED <<pidVars, pipeSize, started, ReadOut, ReadErr, readErrSet,
                   Err, accOut, accErr, pipes, child, closeState, outputs>>

\* Exec, lines 80-83: Open, in a call whose earlier steps are prior
OpenStep(prior) ==
    /\ \E n \in OpenFailures :
         /\ stdin' = OpenHandles(n).stdin
         /\ stdout' = OpenHandles(n).stdout
         /\ stderr' = OpenHandles(n).stderr
         /\ cmdPipes' = cmdPipes \cup Acquired(n)
         /\ IF n # 0
            THEN FailFrom(prior, "open", OpenErr)
            ELSE /\ xpc' = "start"
                 /\ steps' = Append(prior, "open")
                 /\ failedAt' = ""
                 /\ UNCHANGED RunErr
    /\ execCalls' = execCalls + 1
    /\ UNCHANGED <<pidVars, pipeSize, started, ReadOut, ReadErr, readErrSet,
                   Err, accOut, accErr, pipes, child, closeState, outputs>>

\* Exec, lines 79-83: the call on the runner NewExec returned
ExecOpen ==
    /\ xpc = "new"
    /\ OpenStep(steps)

\* Exec, lines 79-83: another call on a runner whose Exec has returned
ExecAgain ==
    /\ xpc = "returned"
    /\ execCalls < MaxExecs
    /\ OpenStep(<<>>)

\* mutant: a failed Start returns without recording the error
ExecCmdStartDropErr ==
    /\ xpc = "start"
    /\ \/ /\ childPc = "none"
          /\ childPc' = "running"
          /\ started' = started + 1
          /\ xpc' = "callback"
          /\ Done("start")
          /\ UNCHANGED handles
       \/ /\ childPc = "none"
          /\ failedAt' = "start"
          /\ steps' = Append(steps, "start")
          /\ xpc' = "returned"
          /\ UNCHANGED RunErr
          /\ stdin' = "closed" /\ stdout' = "closed" /\ stderr' = "closed"
          /\ UNCHANGED <<childPc, started>>
       \/ /\ childPc # "none"
          /\ Fail("start", ErrStarted)
          /\ UNCHANGED <<handles, childPc, started>>
    /\ UNCHANGED <<pidVars, pipeSize, cmdPipes, execCalls, ReadOut, ReadErr,
                   readErrSet, Err, accOut, accErr, pipes, childPlan,
                   childPos, childExit, sawEOF, inRead, closeState, outputs>>

\* Exec, lines 84-87: Cmd.Start; a failed Start closes the pipe descriptors
ExecCmdStart ==
    /\ xpc = "start"
    /\ \/ /\ childPc = "none"
          /\ childPc' = "running"
          /\ started' = started + 1
          /\ xpc' = "callback"
          /\ Done("start")
          /\ UNCHANGED handles
       \/ /\ childPc = "none"
          /\ Fail("start", ErrStart)
          /\ stdin' = "closed" /\ stdout' = "closed" /\ stderr' = "closed"
          /\ UNCHANGED <<childPc, started>>
       \/ /\ childPc # "none"
          /\ Fail("start", ErrStarted)
          /\ UNCHANGED <<handles, childPc, started>>
    /\ UNCHANGED <<pidVars, pipeSize, cmdPipes, execCalls, ReadOut, ReadErr,
                   readErrSet, Err, accOut, accErr, pipes, childPlan,
                   childPos, childExit, sawEOF, inRead, closeState, outputs>>

\* Exec, line 89: the callback writes one byte of its input; a full pipe blocks
CallbackWrite ==
    /\ xpc = "callback"
    /\ inLeft > 0
    /\ inBuf < pipeSize
    /\ inLeft' = inLeft - 1
    /\ inBuf' = inBuf + 1
    /\ UNCHANGED <<pidVars, pipeSize, life, xpc, handles, runner, outBuf,
                   errBuf, child, closeState, failedAt, outputs>>

\* Exec, line 89: the callback returns
CallbackReturn ==
    /\ xpc = "callback"
    /\ inLeft = 0
    /\ xpc' = "closeIn"
    /\ Done("callback")
    /\ UNCHANGED <<pidVars, pipeSize, cmdPipes, started, execCalls, handles,
                   ReadOut, ReadErr, readErrSet, Err, accOut, accErr, pipes,
                   child, closeState, outputs>>

\* Exec, lines 91-94: e.stdin.Close()
ExecCloseStdin ==
    /\ xpc = "closeIn"
    /\ stdin' = "closed"
    /\ \/ xpc' = "readOut" /\ Done("closeIn")
       \/ Fail("closeIn", ErrClose)
    /\ UNCHANGED <<pidVars, pipeSize, cmdPipes, started, execCalls, stdout,
                   stderr, ReadOut, ReadErr, readErrSet, Err, accOut, accErr,
                   pipes, child, closeState, outputs>>

\* mutant: a chunk replaces what was read so far
ReadChunkOverwrite(acc, buf) == buf

\* ioutil.ReadAll: one chunk is appended to what was read so far
ReadChunk(acc, buf) == acc \o buf

\* the write end of the child's output and error pipes is closed
ChildGone == childPc \in {"exited", "killed", "reaped"}

\* Read, line 66: ReadAll(e.stdout) takes what the pipe holds
ReadOutChunk ==
    /\ xpc = "readOut"
    /\ outBuf # <<>>
    /\ accOut' = ReadChunk(accOut, outBuf)
    /\ outBuf' = <<>>
    /\ UNCHANGED <<pidVars, pipeSize, life, xpc, handles, ReadOut, ReadErr,
                   readErrSet, RunErr, Err, accErr, inLeft, inBuf, errBuf,
                   child, closeState, failedAt, outputs>>

\* mutant: an empty pipe is taken for end-of-stream
ReadOutEOFEarly ==
    /\ xpc = "readOut"
    /\ outBuf = <<>>
    /\ ReadOut' = accOut
    /\ xpc' = "readErr"
    /\ Done("readOut")
    /\ UNCHANGED <<pidVars, pipeSize, cmdPipes, started, execCalls, handles,
                   ReadErr, readErrSet, Err, accOut, accErr, pipes, child,
                   closeState, outputs>>

\* Read, lines 66-70: ReadAll(e.stdout) reaches end-of-stream
ReadOutEOF ==
    /\ xpc = "readOut"
    /\ outBuf = <<>>
    /\ ChildGone
    /\ ReadOut' = accOut
    /\ xpc' = "readErr"
    /\ Done("readOut")
    /\ UNCHANGED <<pidVars, pipeSize, cmdPipes, started, execCalls, handles,
                   ReadErr, readErrSet, Err, accOut, accErr, pipes, child,
                   closeState, outputs>>

\* Read, lines 67-69 and Exec, lines 96-99: ReadAll(e.stdout) fails
ReadOutFail ==
    /\ xpc = "readOut"
    /\ Fail("readOut", ErrRead)
    /\ UNCHANGED <<pidVars, pipeSize, cmdPipes, started, execCalls, handles,
                   ReadOut, ReadErr, readErrSet, Err, accOut, accErr, pipes,
                   child, closeState, outputs>>

\* Read, line 71: ReadAll(e.stderr) takes what the pipe holds
ReadErrChunk ==
    /\ xpc = "readErr"
    /\ errBuf # <<>>
    /\ accErr' = ReadChunk(accErr, errBuf)
    /\ errBuf' = <<>>
    /\ UNCHANGED <<pidVars, pipeSize, life, xpc, handles, ReadOut, ReadErr,
                   readErrSet, RunErr, Err, accOut, inLeft, inBuf, outBuf,
                   child, closeState, failedAt, outputs>>

\* Read, lines 71-76: ReadAll(e.stderr) reaches end-of-stream
ReadErrEOF ==
    /\ xpc = "readErr"
    /\ errBuf = <<>>
    /\ ChildGone
    /\ ReadErr' = accErr
    /\ readErrSet' = TRUE
    /\ xpc' = "wait"
    /\ Done("readErr")
    /\ UNCHANGED <<pidVars, pipeSize, cmdPipes, started, execCalls, handles,
                   ReadOut, Err, accOut, accErr, pipes, child, closeState,
                   outputs>>

\* Read, lines 72-74 and Exec, lines 96-99: ReadAll(e.stderr) fails
ReadErrFail ==
    /\ xpc = "readErr"
    /\ Fail("readErr", ErrRead)
    /\ UNCHANGED <<pidVars, pipeSize, cmdPipes, started, execCalls, handles,
                   ReadOut, ReadErr, readErrSet, Err, accOut, accErr, pipes,
                   child, closeState, outputs>>

\* Exec, lines 101-104: Cmd.Wait reaps the child and closes the descriptors
ExecWait ==
    /\ xpc = "wait"
    /\ childPc \in {"exited", "killed"}
    /\ childPc' = "reaped"
    /\ stdin' = "closed" /\ stdout' = "closed" /\ stderr' = "closed"
    /\ IF childPc = "exited" /\ childExit = 0
       THEN xpc' = "returned" /\ Done("wait")
       ELSE Fail("wait", IF childPc = "killed"
                         THEN Error(<<"signal:", "broken", "pipe">>)
                         ELSE ExitErr(childExit))
    /\ UNCHANGED <<pidVars, pipeSize, cmdPipes, started, execCalls, ReadOut,
                   ReadErr, readErrSet, Err, accOut, accErr, pipes, childPlan,
                   childPos, childExit, sawEOF, inRead, closeState, outputs>>

\* Close, lines 60-63: a nil handle faults; stdin is not touched
ExecClose ==
    /\ xpc = "returned"
    /\ closeState = "no"
    /\ IF stderr = "nil"
       THEN closeState' = "panicked" /\ UNCHANGED <<stderr, stdout>>
       ELSE /\ stderr' = "closed"
            /\ IF stdout = "nil"
               THEN closeState' = "panicked" /\ UNCHANGED stdout
               ELSE closeState' = "done" /\ stdout' = "closed"
    /\ UNCHANGED <<pidVars, pipeSize, life, xpc, stdin, runner, pipes, child,
                   failedAt, outputs>>

\* the steps of Exec that are not a failure of the environment
ExecProgress ==
    \/ (ExecOpen /\ xpc' = "start")
    \/ (ExecCmdStart /\ xpc' = "callback")
    \/ CallbackWrite
    \/ CallbackReturn
    \/ (ExecCloseStdin /\ xpc' = "readOut")
    \/ ReadOutChunk
    \/ ReadOutEOF
    \/ ReadErrChunk
    \/ ReadErrEOF
    \/ ExecWait

\* ---- the child ----
\* the child reads a byte of its input
ChildReadIn ==
    /\ childPc = "running"
    /\ inBuf > 0
    /\ inBuf' = inBuf - 1
    /\ inRead' = inRead + 1
    /\ UNCHANGED <<pidVars, pipeSize, life, xpc, handles, runner, inLeft,
                   outBuf, errBuf, childPc, childPlan, childPos, childExit,
                   sawEOF, closeState, failedAt, outputs>>

\* the child reads end-of-file: the pipe is empty and its write end closed
ChildSeeEOF ==
    /\ childPc = "running"
    /\ ~sawEOF
    /\ inBuf = 0
    /\ stdin = "closed"
    /\ sawEOF' = TRUE
    /\ UNCHANGED <<pidVars, pipeSize, life, xpc, handles, runner, pipes,
                   childPc, childPlan, childPos, childExit, inRead,
                   closeState, failedAt, outputs>>

NextWrite == childPlan[childPos + 1]

\* the child performs its next write; a full pipe blocks it
ChildWrite ==
    /\ childPc = "running"
    /\ childPos < Len(childPlan)
    /\ IF NextWrite.stream = "out"
       THEN /\ stdout = "open"
            /\ Len(outBuf) < pipeSize
            /\ outBuf' = Append(outBuf, NextWrite.byte)
            /\ UNCHANGED errBuf
       ELSE /\ stderr = "open"
            /\ Len(errBuf) < pipeSize
            /\ errBuf' = Append(errBuf, NextWrite.byte)
            /\ UNCHANGED outBuf
    /\ childPos' = childPos + 1
    /\ UNCHANGED <<pidVars, pipeSize, life, xpc, handles, runner, inLeft,
                   inBuf, childPc, childPlan, childExit, sawEOF, inRead,
                   closeState, failedAt, outputs>>

\* the child writes to a pipe whose read end is closed: SIGPIPE
ChildSigpipe ==
    /\ childPc = "running"
    /\ childPos < Len(childPlan)
    /\ IF NextWrite.stream = "out" THEN stdout = "closed" ELSE stderr = "closed"
    /\ childPc' = "killed"
    /\ UNCHANGED <<pidVars, pipeSize, life, xpc, handles, runner, pipes,
                   childPlan, childPos, childExit, sawEOF, inRead, closeState,
                   failedAt, outputs>>

\* the child exits: its input is at end-of-file and its writes are done
ChildExits ==
    /\ childPc = "running"
    /\ sawEOF
    /\ childPos = Len(childPlan)
    /\ childPc' = "exited"
    /\ UNCHANGED <<pidVars, pipeSize, life, xpc, handles, runner, pipes,
                   childPlan, childPos, childExit, sawEOF, inRead, closeState,
                   failedAt, outputs>>

ChildStep ==
    \/ ChildReadIn
    \/ ChildSeeEOF
    \/ ChildWrite
    \/ ChildSigpipe
    \/ ChildExits

\* ---- the accessors ----
\* ErrorMsg, lines 107-112
ErrorMsg == IF RunErr.nil THEN <<>> ELSE RunErr.msg

\* mutant: a child that reported its own error counts as a success
StatusCodeByExit ==
    IF ErrorMsg = <<>> \/ ErrorMsg = <<"exit", "status", "1">> THEN 200 ELSE 400

\* StatusCode, lines 114-119
StatusCode == IF ErrorMsg = <<>> THEN 200 ELSE 400

\* encoding/json string encoding: quotes and backslashes are escaped
RECURSIVE Escape(_)
Escape(s) ==
    IF s = <<>> THEN <<>>
    ELSE (IF Head(s) \in {"\"", "\\"} THEN <<"\\", Head(s)>> ELSE <<Head(s)>>)
         \o Escape(Tail(s))

JSONString(s) == <<"\"">> \o Escape(s) \o <<"\"">>

\* a JSON number over the digit "1"
IsNumber(s) == s # <<>> /\ \A i \in 1..Len(s) : s[i] = "1"

\* a JSON value over the bytes "[", "]", "1": a number, or an array of at
\* most one value (the alphabet has no comma)
RECURSIVE IsJSONValue(_)
IsJSONValue(s) ==
    \/ IsNumber(s)
    \/ /\ Len(s) >= 2
       /\ s[1] = "["
       /\ s[Len(s)] = "]"
       /\ \/ Len(s) = 2
          \/ IsJSONValue(SubSeq(s, 2, Len(s) - 1))

\* newline and indentation at nesting depth d
RECURSIVE Indentation(_)
Indentation(d) == IF d = 0 THEN <<>> ELSE <<"    ">> \o Indentation(d - 1)

NewLine(d) == <<"\n">> \o Indentation(d)

\* json.Indent of a valid value at nesting depth d
RECURSIVE IndentValue(_, _)
IndentValue(s, d) ==
    IF IsNumber(s) \/ Len(s) = 2 THEN s
    ELSE <<"[">> \o NewLine(d + 1)
         \o IndentValue(SubSeq(s, 2, Len(s) - 1), d + 1)
         \o NewLine(d) \o <<"]">>

\* json.RawMessage.MarshalJSON with the encoder's validity check: the raw
\* bytes, or a failure when they are not one JSON value
RawMessageOK(raw, isSet) == IF isSet THEN IsJSONValue(raw) ELSE TRUE

RawMessageBytes(raw, isSet) == IF isSet THEN raw ELSE <<"n", "u", "l", "l">>

\* the JSON names of the fields of SynqError, in declaration order
SynqErrorTags == <<"name", "url", "message", "details">>

\* the details field is omitted while its pointer is nil
DetailsOmitted(v) == ~v.HasDetails

Member(key, text) == JSONString(<<key>>) \o <<":", " ">> \o text

\* json.MarshalIndent(e.Err, "", "    "), line 139: [ok, body]
MarshalIndent(v, detailsSet) ==
    IF ~DetailsOmitted(v) /\ ~RawMessageOK(v.Details, detailsSet)
    THEN [ok |-> FALSE, body |-> <<>>]
    ELSE [ok |-> TRUE,
          body |-> <<"{">>
              \o NewLine(1) \o Member(SynqErrorTags[1], JSONString(v.Name)) \o <<",">>
              \o NewLine(1) \o Member(SynqErrorTags[2], JSONString(v.Url)) \o <<",">>
              \o NewLine(1) \o Member(SynqErrorTags[3], JSONString(v.Message))
              \o (IF DetailsOmitted(v)
                  THEN <<>>
                  ELSE <<",">> \o NewLine(1)
                       \o Member(SynqErrorTags[4],
                                 IndentValue(RawMessageBytes(v.Details, detailsSet), 1)))
              \o NewLine(0) \o <<"}">>]

ExitStatus1 == <<"exit", "status", "1">>

\* mutant: the captured output is embedded instead of the error stream
MarshalErrorErrOut ==
    IF ErrorMsg # ExitStatus1
    THEN [Err EXCEPT !.Message = ErrorMsg]
    ELSE [Err EXCEPT !.HasDetails = TRUE, !.Details = ReadOut]

\* mutant: the run error text is appended to the template's message
MarshalErrorErrAppend ==
    IF ErrorMsg # ExitStatus1
    THEN [Err EXCEPT !.Message = Err.Message \o ErrorMsg]
    ELSE [Err EXCEPT !.HasDetails = TRUE, !.Details = ReadErr]

\* MarshalError, lines 131-138: e.Err after the branch
MarshalErrorErr ==
    IF ErrorMsg # ExitStatus1
    THEN [Err EXCEPT !.Message = ErrorMsg]
    ELSE [Err EXCEPT !.HasDetails = TRUE, !.Details = ReadErr]

\* MarshalError, lines 139-144: the returned body (nil when marshaling fails)
MarshalError == MarshalIndent(MarshalErrorErr, readErrSet).body

\* StatusBody, lines 121-126
StatusBody == IF ErrorMsg = <<>> THEN ReadOut ELSE MarshalError

\* a caller reads StatusCode()
CallStatusCode ==
    /\ xpc = "returned"
    /\ lastCode' = StatusCode
    /\ UNCHANGED <<pidVars, pipeSize, life, xpc, handles, runner, pipes,
                   child, closeState, failedAt, lastBody, lastMarshal>>

\* a caller reads StatusBody()
CallStatusBody ==
    /\ xpc = "returned"
    /\ lastBody' = StatusBody
    /\ Err' = IF ErrorMsg = <<>> THEN Err ELSE MarshalErrorErr
    /\ UNCHANGED <<pidVars, pipeSize, life, xpc, handles, ReadOut, ReadErr,
                   readErrSet, RunErr, accOut, accErr, pipes, child,
                   closeState, failedAt, lastCode, lastMarshal>>

\* a caller reads MarshalError()
CallMarshalError ==
    /\ xpc = "returned"
    /\ lastMarshal' = MarshalError
    /\ Err' = MarshalErrorErr
    /\ UNCHANGED <<pidVars, pipeSize, life, xpc, handles, ReadOut, ReadErr,
                   readErrSet, RunErr, accOut, accErr, pipes, child,
                   closeState, failedAt, lastCode, lastBody>>

ExecStep ==
    \/ ExecOpen
    \/ ExecCmdStart
    \/ CallbackWrite
    \/ CallbackReturn
    \/ ExecCloseStdin
    \/ ReadOutChunk
    \/ ReadOutEOF
    \/ ReadOutFail
    \/ ReadErrChunk
    \/ ReadErrEOF
    \/ ReadErrFail
    \/ ExecWait

CallerStep ==
    \/ ExecClose
    \/ CallStatusCode
    \/ CallStatusBody
    \/ CallMarshalError

NextExec == ExecStep \/ ChildStep \/ CallerStep

NextReuse == NextExec \/ ExecAgain

\* ------------------------------------------------------------------------
\* Specifications
\* ------------------------------------------------------------------------
\* claimants run CheckPid concurrently
InitGuard == InitPid /\ ExecStart(<<>>, 0, 0) /\ pipeSize = PipeCap

SpecPid == InitGuard /\ [][NextPid]_vars

\* no claimant has called CheckPid
InitIdle ==
    /\ fileExists = FALSE /\ fileData = <<>>
    /\ alive = Procs
    /\ pc = [p \in Procs |-> "idle"]
    /\ calls = [p \in Procs |-> 0]
    /\ bytes = [p \in Procs |-> <<>>]
    /\ probeErr = [p \in Procs |-> NilErr]
    /\ ret = [p \in Procs |-> NoRet]
    /\ won = {}
    /\ sawExists = [p \in Procs |-> FALSE]
    /\ probedAlive = [p \in Procs |-> FALSE]
    /\ wrote = [p \in Procs |-> FALSE]
    /\ prevRet = [p \in Procs |-> NoRet]
    /\ fileAtCall = [p \in Procs |-> NoFile]
    /\ fileAtRet = [p \in Procs |-> NoFile]
    /\ overlapped = FALSE

\* one runner drives one child whose writes exceed what a pipe holds
InitRun == InitExec /\ InitIdle /\ pipeSize = PipeCap

SpecExec == InitRun /\ [][NextExec]_vars

\* one runner on which Exec is called again after it returned
InitReuse == InitRun /\ Len(childPlan) <= ReuseWrites

SpecReuse == InitReuse /\ [][NextReuse]_vars

\* one runner drives one child whose writes all fit into the pipes
InitReport == InitExec /\ InitIdle /\ pipeSize = ReportCap

SpecReport == InitReport /\ [][NextExec]_vars

\* the caller and the child keep running; the environment need not fail
LiveSpecExec ==
    /\ SpecExec
    /\ WF_vars(ExecProgress)
    /\ WF_vars(ChildStep)

\* ------------------------------------------------------------------------
\* Properties of CheckPid
\* ------------------------------------------------------------------------
\* the claimant's last call has returned
Finished(p) == pc[p] = "idle" /\ calls[p] > 0

\* the last call read a file recording another PID
ReadOther(p) == Finished(p) /\ sawExists[p] /\ ParseInt(bytes[p]) # p

Success(p) == [pid |-> p, err |-> NilErr]

\* s is the decimal text of n
IsDecimalOf(s, n) ==
    /\ s # <<>>
    /\ \A i \in 1..Len(s) : IsDigit(s[i])
    /\ (Len(s) > 1 => s[1] # "0")
    /\ ParseDigits(s, 0) = n

\* r is a conflict naming pid
IsConflict(r, pid) ==
    /\ r.pid = pid
    /\ ~r.err.nil
    /\ \E i \in 0..(Len(r.err.msg) - 1) :
         /\ IsDecimalOf(SubSeq(r.err.msg, i + 1, i + Len(FormatInt(pid))), pid)

\* C1 (as stated): at no time have two distinct live processes each
\* obtained (own PID, nil) for the lock file.
MutualExclusion == Cardinality(won \cap alive) <= 1

\* C1 (amended): as long as no CheckPid call began while another live
\* process was inside CheckPid, at most one live process has obtained
\* (own PID, nil).
SerialMutualExclusion == ~overlapped => Cardinality(won \cap alive) <= 1

\* a live owner, and a live loser that was told about the owner
SerialMutualExclusionWitness ==
    /\ ~overlapped
    /\ \E p \in won \cap alive : \E q \in alive \ {p} :
         Finished(q) /\ IsConflict(ret[q], p)

\* C5: a call that read another PID and found that process alive returns
\* the recorded PID with an error naming it, never (own PID, nil).
LiveConflict ==
    \A p \in Procs :
        (ReadOther(p) /\ probedAlive[p]) =>
            /\ IsConflict(ret[p], ParseInt(bytes[p]))
            /\ ret[p] # Success(p)

LiveConflictWitness ==
    \E p \in Procs :
        /\ ReadOther(p) /\ probedAlive[p]
        /\ ParseInt(bytes[p]) \in alive \ {p}
        /\ p \notin won

\* C6: a call that read another PID whose probe reported "already finished"
\* or "no such process" returns (own PID, nil); when no calls overlapped, the
\* file holds the caller's PID as decimal text when the call returns.
StaleReclaim ==
    \A p \in Procs :
        (ReadOther(p) /\ probeErr[p] \in {ErrFinished, ErrNoSuch}) =>
            /\ ret[p] = Success(p)
            /\ wrote[p]
            /\ ~overlapped =>
                 /\ fileAtRet[p].exists
                 /\ IsDecimalOf(fileAtRet[p].data, p)

\* a reclaim of a longer stale PID text by a shorter one
StaleReclaimWitness ==
    \E p \in Procs :
        /\ ReadOther(p) /\ probeErr[p] \in {ErrFinished, ErrNoSuch}
        /\ ~overlapped
        /\ Len(fileAtCall[p].data) > Len(fileAtRet[p].data)
        /\ fileAtCall[p].data # fileAtRet[p].data

\* C7: a call that found no lock file returns (own PID, nil); when no calls
\* overlapped, the file exists and holds the caller's PID as decimal text
\* when the call returns.
AbsentClaim ==
    \A p \in Procs :
        (Finished(p) /\ ~sawExists[p]) =>
            /\ ret[p] = Success(p)
            /\ ~overlapped =>
                 /\ fileAtRet[p].exists
                 /\ IsDecimalOf(fileAtRet[p].data, p)

AbsentClaimWitness ==
    \E p \in Procs :
        /\ Finished(p) /\ ~sawExists[p] /\ ~overlapped
        /\ ~fileAtCall[p].exists
        /\ Len(fileAtRet[p].data) = 2

FailClosed ==
    \A p \in Procs :
        (ReadOther(p) /\ probeErr[p] \in {ErrPerm, ErrNotInit}) =>
            /\ IsConflict(ret[p], ParseInt(bytes[p]))
            /\ ~wrote[p]

FailClosedWitness ==
    \E p \in Procs :
        /\ ReadOther(p) /\ probeErr[p] = ErrPerm
        /\ fileExists /\ fileData = fileAtCall[p].data

\* C18: a call that returns an error has not opened the lock file for
\* writing, and when no calls overlapped the file is the same when the call
\* returns as when it began; a call that returns no error returns the
\* caller's own PID.
ErrorLeavesFile ==
    \A p \in Procs :
        Finished(p) =>
            /\ ~ret[p].err.nil =>
                  /\ ~wrote[p]
                  /\ ~overlapped => fileAtRet[p] = fileAtCall[p]
            /\ ret[p].err.nil => ret[p].pid = p

\* a claimant lost to the live owner recorded in the file
ErrorLeavesFileWitness ==
    \E p \in Procs, q \in alive :
        /\ q # p
        /\ Finished(p) /\ ~ret[p].err.nil
        /\ ~overlapped
        /\ fileExists /\ fileData = FormatInt(q)
        /\ ret[q] = Success(q)

\* ------------------------------------------------------------------------
\* Properties of ExecObj
\* ------------------------------------------------------------------------
\* a body without the white space MarshalIndent inserts
Strip(body) == SelectSeq(body, LAMBDA c : c \notin {"\n", "    ", " "})

\* index of the quote that closes a JSON string whose content starts at j,
\* 0 if the string is not closed
RECURSIVE ScanStr(_, _)
ScanStr(t, j) ==
    IF j > Len(t) THEN 0
    ELSE IF t[j] = "\\" THEN ScanStr(t, j + 2)
    ELSE IF t[j] = "\"" THEN j
    ELSE ScanStr(t, j + 1)

\* a member "key": "string" starts at i: index of its last token, else 0
StrMember(t, i, key) ==
    IF i = 0 \/ i + 4 > Len(t) THEN 0
    ELSE IF /\ t[i] = "\"" /\ t[i + 1] = key /\ t[i + 2] = "\""
            /\ t[i + 3] = ":" /\ t[i + 4] = "\""
         THEN ScanStr(t, i + 5)
         ELSE 0

\* the member after the one that ends at e: index of its first token, else 0
NextMember(t, e) ==
    IF e = 0 \/ e + 1 > Len(t) \/ t[e + 1] # "," THEN 0 ELSE e + 2

\* a member "details": value starts at i and runs to the closing brace
DetailsMember(t, i) ==
    /\ i # 0
    /\ i + 4 <= Len(t) - 1
    /\ t[i] = "\"" /\ t[i + 1] = "details" /\ t[i + 2] = "\"" /\ t[i + 3] = ":"
    /\ LET v == SubSeq(t, i + 4, Len(t) - 1)
       IN  IsJSONValue(v) \/ v = <<"n", "u", "l", "l">>

\* body decodes as {name, url, message, details?}
IsSynqErrorDoc(body) ==
    LET t == Strip(body)
        e1 == StrMember(t, 2, "name")
        e2 == StrMember(t, NextMember(t, e1), "url")
        e3 == StrMember(t, NextMember(t, e2), "message")
    IN  /\ Len(t) >= 2
        /\ t[1] = "{"
        /\ t[Len(t)] = "}"
        /\ e3 # 0
        /\ \/ e3 + 1 = Len(t)
           \/ DetailsMember(t, NextMember(t, e3))

\* C2: with a caller and a child that keep running, Exec eventually returns.
ExecEventuallyReturns == <>(xpc = "returned")

\* C3: after Exec returned and Close was called, no pipe handle that was
\* acquired is still open.
PipesReleased ==
    (xpc = "returned" /\ closeState # "no") =>
        (stdin # "open" /\ stdout # "open" /\ stderr # "open")

\* C4: once Exec returned with a run error, StatusBody is a non-empty
\* document that decodes as {name, url, message, details?}.
StructuredErrorAlways ==
    (xpc = "returned" /\ ~RunErr.nil) =>
        (StatusBody # <<>> /\ IsSynqErrorDoc(StatusBody))

\* C10: after a run in which no step failed and the child exited with
\* status 0, StatusBody is exactly the bytes the child wrote to its output,
\* in order and complete, and StatusCode is 200; so is what the calls return.
CleanRunBody ==
    (xpc = "returned" /\ failedAt = "") =>
        /\ StatusBody = StreamOf(childPlan, "out")
        /\ StatusCode = 200
        /\ lastBody \in {<<>>, StreamOf(childPlan, "out")}
        /\ lastCode \in {0, 200}

\* a clean run whose child wrote two different bytes to its output and some
\* to its error stream, after StatusBody and StatusCode were called
CleanRunBodyWitness ==
    /\ xpc = "returned" /\ failedAt = "" /\ childExit = 0
    /\ Len(StreamOf(childPlan, "out")) >= 2
    /\ StreamOf(childPlan, "out")[1] # StreamOf(childPlan, "out")[2]
    /\ StreamOf(childPlan, "err") # <<>>
    /\ lastBody = StreamOf(childPlan, "out")
    /\ lastCode = 200

\* C11: after Exec, StatusCode is 200 exactly when no run error is set and
\* 400 for every run error Exec can set, whatever its message; it has no
\* other value, and a StatusCode call returns that value.
TwoValuedStatus ==
    xpc = "returned" =>
        /\ StatusCode \in {200, 400}
        /\ (StatusCode = 200 <=> RunErr.nil)
        /\ (StatusCode = 400 <=> ~RunErr.nil)
        /\ lastCode \in {0, StatusCode}

\* StatusCode was called after the child reported its own error
TwoValuedStatusWitness ==
    /\ xpc = "returned"
    /\ RunErr = ExitErr(1)
    /\ lastCode = 400

\* a JSON string content with its escapes removed
RECURSIVE Unescape(_)
Unescape(s) ==
    IF s = <<>> THEN <<>>
    ELSE IF Head(s) = "\\" /\ Len(s) >= 2
         THEN <<s[2]>> \o Unescape(SubSeq(s, 3, Len(s)))
         ELSE <<Head(s)>> \o Unescape(Tail(s))

\* the decoded message member of a document that IsSynqErrorDoc accepts
DocMessage(body) ==
    LET t == Strip(body)
        e1 == StrMember(t, 2, "name")
        e2 == StrMember(t, NextMember(t, e1), "url")
        m == NextMember(t, e2)
        e3 == StrMember(t, m, "message")
    IN  Unescape(SubSeq(t, m + 5, e3 - 1))

\* the document has a details member
DocHasDetails(body) ==
    LET t == Strip(body)
        e1 == StrMember(t, 2, "name")
        e2 == StrMember(t, NextMember(t, e1), "url")
        e3 == StrMember(t, NextMember(t, e2), "message")
    IN  e3 + 1 # Len(t)

\* C12: after a failed Cmd.Start, StatusCode is 400 and StatusBody decodes as
\* the structured error whose message is the non-empty text of the start
\* error, without a details member; a StatusBody call returns that document.
StartFailureBody ==
    (xpc = "returned" /\ failedAt = "start") =>
        /\ StatusCode = 400
        /\ IsSynqErrorDoc(StatusBody)
        /\ DocMessage(StatusBody) # <<>>
        /\ DocMessage(StatusBody) = ErrStart.msg
        /\ ~DocHasDetails(StatusBody)
        /\ lastBody \in {<<>>, StatusBody}

\* StatusBody and StatusCode were called after a failed start
StartFailureBodyWitness ==
    /\ xpc = "returned" /\ failedAt = "start"
    /\ childPc = "none"
    /\ lastBody # <<>>
    /\ lastCode = 400

\* the bytes of the details member as they stand in the document
DocDetails(body) ==
    LET k == CHOOSE i \in 2..(Len(body) - 2) :
                 /\ body[i] = "details"
                 /\ body[i - 1] = "\"" /\ body[i + 1] = "\"" /\ body[i + 2] = ":"
    IN  SubSeq(body, k + 4, Len(body) - 2)

\* the child reported its own error as one JSON value on its error stream
OwnJSONError == xpc = "returned" /\ RunErr = ExitErr(1) /\ IsJSONValue(ReadErr)

DetailsOnlyOnExit1 ==
    (xpc = "returned" /\ ~RunErr.nil /\ RunErr # ExitErr(1)
                      /\ StatusBody # <<>>) =>
        /\ DocMessage(StatusBody) = RunErr.msg
        /\ ~DocHasDetails(StatusBody)

\* the steps of Exec in the order of lines 80-104
StepOrder ==
    <<"open", "start", "callback", "closeIn", "readOut", "readErr", "wait">>

\* the errors a step can fail with
StepErrors(step) ==
    IF step = "open" THEN {ErrPipe, ErrStdinSet}
    ELSE IF step = "start" THEN {ErrStart, ErrStarted}
    ELSE IF step = "closeIn" THEN {ErrClose}
    ELSE IF step \in {"readOut", "readErr"} THEN {ErrRead}
    ELSE {ExitErr(n) : n \in ExitCodes \ {0}}
         \cup {Error(<<"signal:", "broken", "pipe">>)}

\* the callback has written nothing to the child's input
CallbackNotInvoked == inBuf = 0 /\ inRead = 0 /\ inLeft \in 0..MaxIn

\* neither stream was read
NothingRead ==
    /\ accOut = <<>> /\ accErr = <<>>
    /\ ReadOut = <<>> /\ ReadErr = <<>> /\ ~readErrSet

\* C15: Exec runs open, start, callback, close input, drain, wait in this
\* order and stops at the first step that fails: that step is the last one
\* run and its error is the run error.  No process is started when a pipe
\* acquisition fails; the callback is not invoked and nothing is read when
\* start fails; drain and wait are skipped when closing the input fails;
\* wait is skipped when a drain fails.
StickyFirstError ==
    /\ steps = SubSeq(StepOrder, 1, Len(steps))
    /\ RunErr.nil <=> failedAt = ""
    /\ failedAt # "" =>
         /\ xpc = "returned"
         /\ steps # <<>> /\ steps[Len(steps)] = failedAt
         /\ RunErr \in StepErrors(failedAt)
    /\ failedAt = "open" =>
         childPc = "none" /\ started = 0 /\ CallbackNotInvoked /\ NothingRead
    /\ failedAt = "start" =>
         childPc = "none" /\ started = 0 /\ CallbackNotInvoked /\ NothingRead
    /\ failedAt = "closeIn" => NothingRead /\ childPc # "reaped"
    /\ failedAt = "readOut" =>
         ReadOut = <<>> /\ accErr = <<>> /\ ~readErrSet /\ childPc # "reaped"
    /\ failedAt = "readErr" => ~readErrSet /\ childPc # "reaped"

\* a pipe acquisition failed after the input pipe was attached
StickyFirstErrorWitness ==
    /\ xpc = "returned"
    /\ failedAt = "open"
    /\ RunErr = ErrPipe
    /\ stdin = "open"
    /\ started = 0
    /\ inLeft > 0

\* the step has run to its end in this call (a failed step is not done)
StepDone(step) ==
    \E i \in 1..Len(steps) : steps[i] = step /\ failedAt # step

\* what the child has written to a stream so far
Written(stream) == StreamOf(SubSeq(childPlan, 1, childPos), stream)

\* C16: in one Exec the callback runs only after the child was started;
\* the input handle is closed after the callback returned; the output and
\* error buffers are populated once, after the input handle was closed and
\* before the wait; output is drained to end-of-stream before error
\* draining begins; the wait happens only after both drains completed.
StepOrdering ==
    /\ steps = SubSeq(StepOrder, 1, Len(steps))
    /\ (xpc = "callback" \/ inBuf + inRead > 0) =>
          StepDone("start") /\ started = 1
    /\ StepDone("callback") => inLeft = 0
    /\ (stdin = "closed" /\ failedAt # "start") => StepDone("callback")
    /\ (ReadOut # <<>> \/ ReadErr # <<>> \/ readErrSet) =>
          StepDone("closeIn") /\ stdin = "closed"
    /\ ~StepDone("readOut") => ReadOut = <<>> /\ accErr = <<>>
    /\ StepDone("readOut") =>
          /\ ChildGone /\ outBuf = <<>>
          /\ ReadOut = Written("out")
    /\ ~StepDone("readErr") =>
          ReadErr = <<>> /\ ~readErrSet /\ childPc # "reaped"
    /\ StepDone("readErr") =>
          /\ ChildGone /\ errBuf = <<>>
          /\ readErrSet /\ ReadErr = Written("err")
    /\ childPc = "reaped" => StepDone("readOut") /\ StepDone("readErr")

\* a whole run of a child that wrote to both streams
StepOrderingWitness ==
    /\ xpc = "returned"
    /\ steps = StepOrder
    /\ ReadOut # <<>> /\ ReadErr # <<>>
    /\ inRead > 0
    /\ childPc = "reaped"

\* C17: over any sequence of Exec calls on one runner at most one child
\* process is started: Exec reaches Cmd.Start only on a runner that has no
\* child yet, and a call on a runner that has one is refused in Open.
OneProcess ==
    /\ started <= 1
    /\ started = 0 <=> childPc = "none"
    /\ xpc = "start" => started = 0
    /\ (execCalls > 1 /\ started = 1 /\ ~StepDone("start")) =>
          /\ xpc = "returned"
          /\ steps = <<"open">> /\ failedAt = "open"
          /\ RunErr = ErrStdinSet

\* Exec was called again after the child of the first call was reaped
OneProcessWitness ==
    /\ execCalls = 2
    /\ started = 1
    /\ childPc = "reaped"
    /\ xpc = "returned"
    /\ RunErr = ErrStdinSet

\* C19: Close called after Exec returned, whatever step Exec failed at,
\* completes without faulting.
CloseNeverFaults == xpc = "returned" => closeState # "panicked"

\* C20: once Exec has returned, no step changes what StatusCode, StatusBody
\* and MarshalError return, nor the run error or the captured buffers; each
\* call of an accessor returns that same value, although MarshalError
\* rewrites the error template.
AccessorsStable ==
    [][xpc = "returned" =>
          /\ StatusCode' = StatusCode
          /\ StatusBody' = StatusBody
          /\ MarshalError' = MarshalError
          /\ RunErr' = RunErr /\ ReadOut' = ReadOut /\ ReadErr' = ReadErr
          /\ lastCode' # lastCode => lastCode' = StatusCode
          /\ lastBody' # lastBody => lastBody' = StatusBody
          /\ lastMarshal' # lastMarshal => lastMarshal' = MarshalError
          /\ Err' # Err => Err' = MarshalErrorErr /\ MarshalErrorErr' = Err']_vars

\* both bodies were read after a failed run and the template was rewritten
AccessorsStableWitness ==
    /\ xpc = "returned"
    /\ lastCode = 400
    /\ lastBody # <<>> /\ lastMarshal = lastBody
    /\ Err # DefaultErr /\ Err = MarshalErrorErr
    /\ Err.Message = RunErr.msg

====
